---------------------------- MODULE Spec2Model ----------------------------
(***************************************************************************)
(* A model of the two programs of the repository, password_manager_v2.py   *)
(* and password_manager_v2.5.py: the master-password gate, the accounts    *)
(* table, the salt and verifier files, the configuration and the backup    *)
(* directory.  One process runs at a time; every handler runs to           *)
(* completion before the next menu choice is read, so a handler is one     *)
(* action.  Text is a sequence of one-character strings.  An optional      *)
(* value (a file that may be absent, Python's None) is a set with at most  *)
(* one element.                                                            *)
(***************************************************************************)
EXTENDS Integers, Sequences, FiniteSets, TLC

VARIABLES
    ver,         \* which program file is run: "v2" or "v25"
    pc,          \* position of the process: off, setup, unlock, menu, settings
    attempt,     \* failed attempts of verify_master's loop in this run
    key,         \* self.key: {} (None) or {derived key}
    verified,    \* verify_master has returned True in this run
    masterFile,  \* MASTER_FILE: {} (absent) or {stored text}
    saltFile,    \* SALT_FILE: {} (absent) or {salt}
    accounts,    \* rows of the accounts table of DB_FILE
    dbMtime,     \* modification time of DB_FILE (0: not created yet)
    config,      \* self.config (v2.5)
    configFile,  \* CONFIG_FILE: {} (absent) or {saved configuration}
    backups,     \* files backup_*.db of BACKUP_DIR
    clock,       \* the time, in ticks
    setupKey,    \* history: the key set_master derived, {} before
    writable,    \* BACKUP_DIR can be written: copy2 into it succeeds
    out          \* what the last handler reported to the user

vars == <<ver, pc, attempt, key, verified, masterFile, saltFile, accounts,
          dbMtime, config, configFile, backups, clock, setupKey, writable,
          out>>

---------------------------------------------------------------------------
(* Bounds. *)

MaxClock == 4

MaxRows == 2

TicksPerSec == 2

---------------------------------------------------------------------------
(* Text. *)

Rep(c, n) == [i \in 1..n |-> c]

\* string.ascii_uppercase / str.isupper on ASCII
Uppercase ==
    {"A","B","C","D","E","F","G","H","I","J","K","L","M",
     "N","O","P","Q","R","S","T","U","V","W","X","Y","Z"}

\* string.ascii_lowercase / str.islower on ASCII
Lowercase ==
    {"a","b","c","d","e","f","g","h","i","j","k","l","m",
     "n","o","p","q","r","s","t","u","v","w","x","y","z"}

\* string.digits / str.isdigit on ASCII
DigitChars == {"0","1","2","3","4","5","6","7","8","9"}

\* string.punctuation (without the grave accent, which no TLA+ string can
\* hold; no input of the model contains it)
Punctuation ==
    {"!","\"","#","$","%","&","'","(",")","*","+",",","-",".","/",":",";",
     "<","=",">","?","@","[","\\","]","^","_","{","|","}","~"}

Whitespace == {" "}

RECURSIVE LStrip(_)
LStrip(s) ==
    IF s # <<>> /\ Head(s) \in Whitespace THEN LStrip(Tail(s)) ELSE s

RECURSIVE RStrip(_)
RStrip(s) ==
    IF s # <<>> /\ s[Len(s)] \in Whitespace
    THEN RStrip(SubSeq(s, 1, Len(s) - 1)) ELSE s

\* str.strip()
Strip(s) == RStrip(LStrip(s))

AnyChar(s, S) == \E i \in 1..Len(s) : s[i] \in S

B2N(b) == IF b THEN 1 ELSE 0

Min(a, b) == IF a <= b THEN a ELSE b

Max(a, b) == IF a >= b THEN a ELSE b

---------------------------------------------------------------------------
(* Inputs the user may type. *)

\* "Tr0ub4dor&3", the passphrase of the specification's example
Troubador == <<"T","r","0","u","b","4","d","o","r","&","3">>

\* Master passphrases tried at set_master and verify_master
Passphrases ==
    { Troubador,
      <<"A","b","1">>,       \* upper, lower, digit; 3 characters
      <<"a","b","c">>,       \* lower only
      Rep("a", 8),           \* lower only, length 8
      Rep("a", 12),          \* lower only, length 12
      Rep(" ", 16) }         \* no letter, digit or symbol, length 16

\* What is typed at add's Service, Username and Password prompts
AddInputs ==
    { << <<"a","b">>, <<"u">>, <<"s">> >>,
      << <<"a","_">>, <<"u">>, <<"s">> >>,
      << <<"A","B">>, <<"u">>, <<"s">> >>,
      << <<>>,        <<"u">>, <<"s">> >>,
      << <<" ">>,     <<"u">>, <<"s">> >>,
      << <<"a","b">>, <<>>,    <<"s">> >>,
      << <<"a","b">>, <<"u">>, <<>>    >> }

\* What is typed at get's Service prompt
ServiceInputs == { <<>>, <<"a","_">>, <<"a","b">>, <<" ","A","B">> }

\* What is typed at search's prompt
SearchInputs == { <<"a","_">>, <<"u">> }

\* What is typed at update's New username prompt
UsernameInputs == { <<>>, <<"v">> }

\* What is typed at update's New password prompt
SecretInputs == { <<>>, <<"t">> }

UrlInputs == { <<>> }

NotesInputs == { <<>> }

\* What is typed at an "ID" prompt
IdInputs == { <<"1">>, <<" ","2">>, <<"x">> }

\* Salts secrets.token_bytes(16) may return
Salts == { "salt1", "salt2" }

---------------------------------------------------------------------------
(* Key derivation, verifier and record cipher.  SHA-256, PBKDF2 and Fernet *)
(* are modelled symbolically: a digest or a key is equal to another only   *)
(* when computed from the same inputs, and a token decrypts only under the *)
(* key that made it.                                                        *)

hash_password_collide(pw) == <<"sha256", Len(pw)>>

hash_password(pw) == <<"sha256", pw>>

PBKDF2_timed(pw, salt) == [pw |-> pw, salt |-> salt, t |-> clock]

\* get_key: PBKDF2HMAC(SHA256, 32, salt, 100000).derive(pw), base64
PBKDF2(pw, salt) == [pw |-> pw, salt |-> salt]

Fernet_encrypt_nokey(k, data, iv) ==
    [k |-> [pw |-> <<>>, salt |-> "none"], m |-> data, iv |-> iv]

\* Fernet(k).encrypt(data): the token carries a fresh IV, here the tick
Fernet_encrypt(k, data, iv) == [k |-> k, m |-> data, iv |-> iv]

\* self.encrypt(data): {} when Fernet raises (self.key is None)
encrypt(data, iv) == { Fernet_encrypt(k, data, iv) : k \in key }

\* self.decrypt(data): {} (None) when Fernet raises
decrypt(token) == IF token.k \in key THEN { token.m } ELSE {}

\* Python's truth of a decrypted value: neither None nor ""
Truthy(opt) == \E x \in opt : x # <<>>

---------------------------------------------------------------------------
(* Password strength. *)

\* PasswordManager.check_strength of v2
check_strength_v2(pw) ==
    Min(5, B2N(Len(pw) >= 8) + B2N(Len(pw) >= 12)
           + B2N(AnyChar(pw, Uppercase)) + B2N(AnyChar(pw, Lowercase))
           + B2N(AnyChar(pw, DigitChars)) + B2N(AnyChar(pw, Punctuation)))

\* PasswordGenerator.check_strength of v2.5 (the score)
check_strength_v25(pw) ==
    Min(5, B2N(Len(pw) >= 8) + B2N(Len(pw) >= 12) + B2N(Len(pw) >= 16)
           + B2N(AnyChar(pw, Uppercase)) + B2N(AnyChar(pw, Lowercase))
           + B2N(AnyChar(pw, DigitChars)) + B2N(AnyChar(pw, Punctuation)))

check_strength(pw) ==
    IF ver = "v2" THEN check_strength_v2(pw) ELSE check_strength_v25(pw)

MinScore == 3

IsWeak_off(pw) == check_strength(pw) < MinScore - 1

\* set_master: "if score < 3"
IsWeak(pw) == check_strength(pw) < MinScore

---------------------------------------------------------------------------
(* The accounts table. *)

UpperSeq ==
    <<"A","B","C","D","E","F","G","H","I","J","K","L","M",
      "N","O","P","Q","R","S","T","U","V","W","X","Y","Z">>

LowerSeq ==
    <<"a","b","c","d","e","f","g","h","i","j","k","l","m",
      "n","o","p","q","r","s","t","u","v","w","x","y","z">>

\* ASCII case folding of SQLite's LIKE
Fold(c) ==
    IF c \in Uppercase
    THEN LowerSeq[CHOOSE i \in 1..26 : UpperSeq[i] = c]
    ELSE c

RECURSIVE Like(_, _)
\* SQLite: str LIKE pat, with % any run of characters and _ any one
Like(pat, str) ==
    IF pat = <<>> THEN str = <<>>
    ELSE IF Head(pat) = "%"
         THEN \E k \in 0..Len(str) : Like(Tail(pat), SubSeq(str, k + 1, Len(str)))
         ELSE /\ str # <<>>
              /\ Head(pat) = "_" \/ Fold(Head(pat)) = Fold(Head(str))
              /\ Like(Tail(pat), Tail(str))

\* f'%{service}%'
Wrap(q) == <<"%">> \o q \o <<"%">>

MaxOf(S) == CHOOSE m \in S : \A x \in S : x <= m

\* The rowid SQLite gives to INSERT ... VALUES (NULL, ...)
NextId(rows) == IF rows = {} THEN 1 ELSE MaxOf({ r.id : r \in rows }) + 1

DigitVal_one(c) == 1

\* The integer a text compared with the INTEGER column id converts to
DigitVal(c) ==
    CASE c = "0" -> 0 [] c = "1" -> 1 [] c = "2" -> 2 [] c = "3" -> 3
      [] c = "4" -> 4 [] c = "5" -> 5 [] c = "6" -> 6 [] c = "7" -> 7
      [] c = "8" -> 8 [] c = "9" -> 9 [] OTHER -> 0

RowsWithId_any(rows, text) == rows

\* WHERE id=? with the typed text: the rows whose id the text denotes
RowsWithId(rows, text) ==
    IF Len(text) = 1 /\ text[1] \in DigitChars
    THEN { r \in rows : r.id = DigitVal(text[1]) }
    ELSE {}

\* SELECT * FROM accounts WHERE service LIKE '%q%'
SelectByService(rows, q) == { r \in rows : Like(Wrap(q), r.service) }

---------------------------------------------------------------------------
(* Configuration and backups. *)

\* load_config: default = {'auto_backup': True, 'backup_count': 5}
DefaultConfig == [auto_backup |-> TRUE, backup_count |-> 5]

\* load_config: {**default, **json.load(f)}; save_config writes every key
load_config == IF configFile = {} THEN DefaultConfig
               ELSE CHOOSE c \in configFile : TRUE

\* datetime.now().strftime('%Y%m%d_%H%M%S'): the second of a tick
Sec(t) == t \div TicksPerSec

\* shutil.copy2(DB_FILE, backup): the copy replaces a file of that name and
\* keeps the modification time of DB_FILE
CopyDb(bk, rows, mtime, now) ==
    { b \in bk : b.name # Sec(now) }
        \cup { [name |-> Sec(now), content |-> rows, mtime |-> mtime] }

\* sorted(glob, key=getmtime, reverse=True)[n:] is unlinked: the sets of
\* files that may be left (glob's order decides among equal times)
Prune(bk, n) ==
    { K \in SUBSET bk :
        /\ Cardinality(K) = Min(n, Cardinality(bk))
        /\ \A k \in K, d \in bk \ K : k.mtime >= d.mtime }

\* backup() of v2.5: the directory's possible contents afterwards
backup_v25(bk, rows, mtime, now) ==
    Prune(CopyDb(bk, rows, mtime, now), config.backup_count)

\* backup() of v2: copy, no cleanup
backup_v2(bk, rows, mtime, now) == { CopyDb(bk, rows, mtime, now) }

AutoBackup_never == FALSE

\* "if self.config['auto_backup']" after a commit; v2 has no auto backup
AutoBackup == ver = "v25" /\ config.auto_backup

---------------------------------------------------------------------------
(* What a handler reports. *)

\* listed: the lines of a listing, in the order they are printed
Report(op, res, arg, matched, shown) ==
    [op |-> op, res |-> res, arg |-> arg, matched |-> matched, shown |-> shown,
     listed |-> <<>>]

NoReport == Report("none", "none", <<>>, {}, {})

\* A record as get prints it and export writes it
Entry(r, pw) ==
    [id |-> r.id, service |-> r.service, username |-> r.username,
     password |-> pw, url |-> r.url, notes |-> r.notes,
     created |-> r.created, updated |-> r.updated]

Decrypted_abort(rows) ==
    IF \E q \in rows : decrypt(q.password) = {}
    THEN {}
    ELSE { Entry(r, CHOOSE x \in decrypt(r.password) : TRUE) :
             r \in { q \in rows : Truthy(decrypt(q.password)) } }

\* The rows whose decrypted password is truthy ("if pw:"), decrypted
Decrypted(rows) ==
    { Entry(r, CHOOSE x \in decrypt(r.password) : TRUE) :
        r \in { q \in rows : Truthy(decrypt(q.password)) } }

---------------------------------------------------------------------------
(* Initial state: a directory with none of the program's files. *)

Init ==
    /\ ver \in {"v2", "v25"}
    /\ pc = "off"
    /\ attempt = 0
    /\ key = {}
    /\ verified = FALSE
    /\ masterFile = {}
    /\ saltFile = {}
    /\ accounts = {}
    /\ dbMtime = 0
    /\ config = DefaultConfig
    /\ configFile = {}
    /\ backups = {}
    /\ clock = 1
    /\ setupKey = {}
    /\ writable = TRUE
    /\ out = NoReport

disk == <<masterFile, saltFile, accounts, dbMtime, configFile, backups,
          writable>>

---------------------------------------------------------------------------
(* Process start and authentication. *)

first_prompt_setup == "setup"

\* verify_master: "if not os.path.exists(MASTER_FILE): return
\* self.set_master()"
first_prompt == IF masterFile = {} THEN "setup" ELSE "unlock"

\* main / __init__ / run up to the first prompt of verify_master
Start ==
    /\ pc = "off"
    /\ key' = {}
    /\ verified' = FALSE
    /\ attempt' = 0
    /\ out' = NoReport
    /\ config' = IF ver = "v25" THEN load_config ELSE config
    /\ dbMtime' = IF dbMtime = 0 THEN clock ELSE dbMtime
    /\ pc' = first_prompt
    /\ UNCHANGED <<ver, masterFile, saltFile, accounts, configFile, backups,
                   clock, setupKey, writable>>

get_salt_regen(rnd) == rnd

\* get_salt: the file's salt or, when SALT_FILE is absent, the 16 bytes rnd
\* that secrets.token_bytes returns and get_salt writes
get_salt(rnd) == IF saltFile # {} THEN CHOOSE x \in saltFile : TRUE ELSE rnd

run_gate_open(ok) == "menu"

\* run: "if not self.verify_master(): return"
run_gate(ok) == IF ok THEN "menu" ELSE "off"

\* set_master: one pass of its loop
set_master(pw1, pw2, rnd) ==
    /\ pc = "setup"
    /\ IF IsWeak(pw1)
       THEN /\ out' = Report("set_master", "weak", pw1, {}, {})
            /\ UNCHANGED <<pc, key, verified, masterFile, saltFile, setupKey>>
       ELSE IF pw1 = pw2
       THEN /\ masterFile' = { hash_password(pw1) }
            /\ saltFile' = { get_salt(rnd) }
            /\ key' = { PBKDF2(pw1, get_salt(rnd)) }
            /\ setupKey' = { PBKDF2(pw1, get_salt(rnd)) }
            /\ verified' = TRUE
            /\ pc' = run_gate(TRUE)
            /\ out' = Report("set_master", "set", pw1, {}, {})
       ELSE /\ out' = Report("set_master", "mismatch", pw1, {}, {})
            /\ UNCHANGED <<pc, key, verified, masterFile, saltFile, setupKey>>
    /\ UNCHANGED <<ver, attempt, accounts, dbMtime, config, configFile,
                   backups, clock, writable>>

MaxAttempts_off == 3 + 1

\* verify_master: "for attempt in range(3)"
MaxAttempts == 3

\* verify_master: one pass of its loop; the stored hex digest holds no
\* white space, so strip() returns it as written
verify_master(pw, rnd) ==
    /\ pc = "unlock"
    /\ IF hash_password(pw) \in masterFile
       THEN /\ saltFile' = { get_salt(rnd) }
            /\ key' = { PBKDF2(pw, get_salt(rnd)) }
            /\ verified' = TRUE
            /\ pc' = run_gate(TRUE)
            /\ out' = Report("verify_master", "ok", pw, {}, {})
            /\ UNCHANGED attempt
       ELSE /\ attempt' = attempt + 1
            /\ IF attempt + 1 >= MaxAttempts
               THEN /\ pc' = run_gate(FALSE)
                    /\ out' = Report("verify_master", "locked", pw, {}, {})
               ELSE /\ pc' = pc
                    /\ out' = Report("verify_master", "incorrect", pw, {}, {})
            /\ UNCHANGED <<key, verified, saltFile>>
    /\ UNCHANGED <<ver, masterFile, accounts, dbMtime, config, configFile,
                   backups, clock, setupKey, writable>>

\* Choice 10 (9 in v2) or Ctrl-C at the menu; Ctrl-C or end of input at
\* any other prompt: the process ends and its memory is gone
Quit ==
    /\ pc # "off"
    /\ pc' = "off"
    /\ key' = {}
    /\ UNCHANGED <<ver, attempt, verified, masterFile, saltFile, accounts,
                   dbMtime, config, configFile, backups, clock, setupKey,
                   writable, out>>

\* Time passes
Tick ==
    /\ clock < MaxClock
    /\ clock' = clock + 1
    /\ UNCHANGED <<ver, pc, attempt, key, verified, masterFile, saltFile,
                   accounts, dbMtime, config, configFile, backups, setupKey,
                   writable, out>>

\* The environment: SALT_FILE is lost while no process runs (deleted, or
\* the other files were moved without it); the next unlock writes a new one
lose_salt ==
    /\ pc = "off"
    /\ saltFile # {}
    /\ saltFile' = {}
    /\ UNCHANGED <<ver, pc, attempt, key, verified, masterFile, accounts,
                   dbMtime, config, configFile, backups, clock, setupKey,
                   writable, out>>

\* Values of backup_count written into CONFIG_FILE by hand
EditedCounts == { 0, 25 }

\* The environment: CONFIG_FILE is edited while no process runs; load_config
\* merges whatever JSON object the file holds over the defaults
edit_config(count) ==
    /\ pc = "off"
    /\ ver = "v25"
    /\ configFile' = { [load_config EXCEPT !.backup_count = count] }
    /\ UNCHANGED <<ver, pc, attempt, key, verified, masterFile, saltFile,
                   accounts, dbMtime, config, backups, clock, setupKey,
                   writable, out>>

\* The last tick of the backup specification: late enough for one more
\* backup name than the default backup_count
MaxBackupClock == DefaultConfig.backup_count * TicksPerSec

\* Time passes at a prompt, up to MaxBackupClock
LongTick ==
    /\ clock < MaxBackupClock
    /\ clock' = clock + 1
    /\ UNCHANGED <<ver, pc, attempt, key, verified, masterFile, saltFile,
                   accounts, dbMtime, config, configFile, backups, setupKey,
                   writable, out>>

---------------------------------------------------------------------------
(* The menu's handlers.  A handler that writes the table stamps the time   *)
(* and the next handler starts at a later tick.                            *)

session == <<ver, pc, attempt, key, verified, config, setupKey>>

Commit_backup_first(rows) ==
    /\ clock < MaxClock
    /\ accounts' = rows
    /\ dbMtime' = clock
    /\ clock' = clock + 1
    /\ IF AutoBackup /\ writable
       THEN backups' \in backup_v25(backups, accounts, dbMtime, clock)
       ELSE UNCHANGED backups

\* The commit of a handler, with the automatic backup that follows it:
\* backup(silent=True) prints nothing, and when copy2 raises it leaves the
\* directory as it was
Commit(rows) ==
    /\ clock < MaxClock
    /\ accounts' = rows
    /\ dbMtime' = clock
    /\ clock' = clock + 1
    /\ IF AutoBackup /\ writable
       THEN backups' \in backup_v25(backups, rows, clock, clock)
       ELSE UNCHANGED backups

NoWrite == UNCHANGED <<accounts, dbMtime, clock, backups>>

\* add of v2.5: the early returns on an empty service, username or typed
\* password; v2 asks for none of them
RequireFields(service, username, secret) ==
    ver = "v25" /\ (service = <<>> \/ username = <<>> \/ secret = <<>>)

\* add
add(svcIn, userIn, secret, urlIn, notesIn) ==
    /\ pc = "menu"
    /\ LET service == Strip(svcIn)
           username == Strip(userIn)
           token == encrypt(secret, clock)
       IN  IF RequireFields(service, username, secret)
           THEN /\ out' = Report("add", "ValidationError", service, {}, {})
                /\ NoWrite
                /\ UNCHANGED pc
           ELSE IF token = {}
           THEN \* encrypt failed: v2.5 returns, v2 dies of the exception
                /\ out' = Report("add", "EncryptionFailed", service, {}, {})
                /\ NoWrite
                /\ pc' = IF ver = "v25" THEN pc ELSE "off"
           ELSE /\ Cardinality(accounts) < MaxRows
                /\ LET row == [id |-> NextId(accounts),
                               service |-> service,
                               username |-> username,
                               password |-> CHOOSE t \in token : TRUE,
                               url |-> Strip(urlIn),
                               notes |-> Strip(notesIn),
                               created |-> clock,
                               updated |-> clock]
                   IN  /\ Commit(accounts \cup { row })
                       /\ out' = Report("add", "added", service, { row.id }, {})
                /\ UNCHANGED pc
    /\ UNCHANGED <<ver, attempt, key, verified, config, setupKey,
                   masterFile, saltFile, configFile, writable>>

NotFoundRes == IF ver = "v25" THEN "NotFound" ELSE "silent"

\* get
get(svcIn) ==
    /\ pc = "menu"
    /\ LET service == Strip(svcIn)
           results == SelectByService(accounts, service)
       IN  out' = Report("get",
                         IF results = {} THEN NotFoundRes ELSE "shown",
                         service, { r.id : r \in results }, Decrypted(results))
    /\ UNCHANGED <<session, disk, clock>>

\* The characters of the inputs, by code point
AsciiOrder ==
    <<" ", "!", "#", "$", "%", "&", "(", ")", "*", "+", ",", "-", ".", "/",
      "0", "1", "2", "3", "4", "5", "6", "7", "8", "9",
      ":", ";", "<", "=", ">", "?", "@",
      "A", "B", "C", "D", "E", "F", "G", "H", "I", "J", "K", "L", "M",
      "N", "O", "P", "Q", "R", "S", "T", "U", "V", "W", "X", "Y", "Z",
      "[", "]", "^", "_",
      "a", "b", "c", "d", "e", "f", "g", "h", "i", "j", "k", "l", "m",
      "n", "o", "p", "q", "r", "s", "t", "u", "v", "w", "x", "y", "z",
      "{", "|", "}", "~">>

Ord(c) == CHOOSE i \in 1..Len(AsciiOrder) : AsciiOrder[i] = c

\* The BINARY collation of the TEXT column service: the first differing
\* byte decides, and a prefix sorts before the longer text
TextLeq(s, t) ==
    \/ \E k \in 1..Min(Len(s), Len(t)) :
          /\ \A j \in 1..(k - 1) : s[j] = t[j]
          /\ Ord(s[k]) < Ord(t[k])
    \/ /\ Len(s) <= Len(t)
       /\ \A j \in 1..Len(s) : s[j] = t[j]

\* One line of the listing: the columns list_all selects
Line(r) ==
    IF ver = "v25"
    THEN [id |-> r.id, service |-> r.service, username |-> r.username,
          created |-> r.created]
    ELSE [id |-> r.id, service |-> r.service, username |-> r.username]

OrderByService_any(rows) ==
    { f \in [1..Cardinality(rows) -> rows] :
        \A i, j \in 1..Cardinality(rows) : i # j => f[i] # f[j] }

\* SELECT ... FROM accounts ORDER BY service: every row once, services
\* ascending; SQLite leaves the order of rows of equal service open
OrderByService(rows) ==
    { f \in [1..Cardinality(rows) -> rows] :
        /\ \A i, j \in 1..Cardinality(rows) : i # j => f[i] # f[j]
        /\ \A i, j \in 1..Cardinality(rows) :
              i < j => TextLeq(f[i].service, f[j].service) }

\* list_all: id, service and username of every row, by service
list_all ==
    /\ pc = "menu"
    /\ \E results \in OrderByService(accounts) :
          out' = [Report("list_all",
                         IF accounts = {} /\ ver = "v25" THEN "empty" ELSE "shown",
                         <<>>, { r.id : r \in accounts }, {})
                  EXCEPT !.listed = [i \in DOMAIN results |-> Line(results[i])]]
    /\ UNCHANGED <<session, disk, clock>>

\* search
search(qIn) ==
    /\ pc = "menu"
    /\ LET q == Strip(qIn)
           results == { r \in accounts :
                          Like(Wrap(q), r.service) \/ Like(Wrap(q), r.username) }
       IN  out' = Report("search",
                         IF results = {} THEN NotFoundRes ELSE "shown",
                         q, { r.id : r \in results }, {})
    /\ UNCHANGED <<session, disk, clock>>

\* update; newPw is {} when no new password is given
update(idIn, userIn, newPw) ==
    /\ pc = "menu"
    /\ LET id_ == Strip(idIn)
           result == RowsWithId(accounts, id_)
           new_user == Strip(userIn)
           token == IF Truthy(newPw)
                    THEN encrypt(CHOOSE x \in newPw : TRUE, clock) ELSE {}
       IN  IF result = {}
           THEN /\ out' = Report("update", "NotFound", id_, {}, {})
                /\ NoWrite
                /\ UNCHANGED pc
           ELSE IF Truthy(newPw) /\ token = {} /\ ver = "v2"
           THEN /\ out' = Report("update", "EncryptionFailed", id_, {}, {})
                /\ NoWrite
                /\ pc' = "off"
           ELSE IF new_user = <<>> /\ token = {}
           THEN /\ out' = Report("update",
                                 IF ver = "v25" THEN "NoChange" ELSE "silent",
                                 id_, { r.id : r \in result }, {})
                /\ NoWrite
                /\ UNCHANGED pc
           ELSE /\ Commit({ IF r \in result
                            THEN [r EXCEPT
                                    !.username = IF new_user # <<>>
                                                 THEN new_user ELSE @,
                                    !.password = IF token # {}
                                                 THEN CHOOSE t \in token : TRUE
                                                 ELSE @,
                                    !.updated = clock]
                            ELSE r : r \in accounts })
                /\ out' = Report("update", "updated", id_,
                                 { r.id : r \in result }, {})
                /\ UNCHANGED pc
    /\ UNCHANGED <<ver, attempt, key, verified, config, setupKey,
                   masterFile, saltFile, configFile, writable>>

delete_keep(rows, result) == rows

\* delete: DELETE FROM accounts WHERE id=?
delete_rows(rows, result) == rows \ result

\* delete; confirmed is whether 'DELETE' was typed
delete(idIn, confirmed) ==
    /\ pc = "menu"
    /\ LET id_ == Strip(idIn)
           result == RowsWithId(accounts, id_)
       IN  IF result = {}
           THEN /\ out' = Report("delete", "NotFound", id_, {}, {})
                /\ NoWrite
           ELSE IF confirmed
           THEN /\ Commit(delete_rows(accounts, result))
                /\ out' = Report("delete", "deleted", id_,
                                 { r.id : r \in result }, {})
           ELSE /\ out' = Report("delete",
                                 IF ver = "v25" THEN "cancelled" ELSE "silent",
                                 id_, { r.id : r \in result }, {})
                /\ NoWrite
    /\ UNCHANGED <<session, masterFile, saltFile, configFile, writable>>

\* export of v2.5: the records written to the export file
export ==
    /\ pc = "menu"
    /\ ver = "v25"
    /\ out' = Report("export", "exported", <<>>,
                     { r.id : r \in accounts }, Decrypted(accounts))
    /\ UNCHANGED <<session, disk, clock>>

backup_failed_silent == "done"

\* What the user sees when backup() fails at copy2 and is not silent:
\* print_error in v2.5; in v2 nothing catches the exception and the
\* process ends with a traceback
backup_failed == IF ver = "v25" THEN "failed" ELSE "crashed"

\* backup() called by the user: menu choice 8 of v2, settings choice 3 of
\* v2.5
backup ==
    /\ \/ pc = "menu" /\ ver = "v2"
       \/ pc = "settings" /\ ver = "v25"
    /\ IF writable
       THEN /\ backups' \in IF ver = "v2"
                            THEN backup_v2(backups, accounts, dbMtime, clock)
                            ELSE backup_v25(backups, accounts, dbMtime, clock)
            /\ out' = Report("backup", "done", <<>>, {}, {})
            /\ UNCHANGED <<pc, key>>
       ELSE /\ UNCHANGED backups
            /\ out' = Report("backup", backup_failed, <<>>, {}, {})
            /\ pc' = IF ver = "v25" THEN pc ELSE "off"
            /\ key' = IF ver = "v25" THEN key ELSE {}
    /\ UNCHANGED <<ver, attempt, verified, config, setupKey, masterFile,
                   saltFile, accounts, dbMtime, configFile, clock, writable>>

\* The environment: BACKUP_DIR loses or regains its write permission
chmod_backups ==
    /\ writable' = ~writable
    /\ UNCHANGED <<ver, pc, attempt, key, verified, masterFile, saltFile,
                   accounts, dbMtime, config, configFile, backups, clock,
                   setupKey, out>>

\* Menu choice 9 of v2.5 and choice 4 of the settings menu
settings_menu ==
    /\ ver = "v25"
    /\ \/ pc = "menu" /\ pc' = "settings"
       \/ pc = "settings" /\ pc' = "menu"
    /\ out' = Report("settings", "menu", <<>>, {}, {})
    /\ UNCHANGED <<ver, attempt, key, verified, config, setupKey, disk, clock>>

\* settings choice 1: toggle auto backup and save_config
settings_toggle ==
    /\ pc = "settings"
    /\ config' = [config EXCEPT !.auto_backup = ~@]
    /\ configFile' = { config' }
    /\ out' = Report("settings", "auto_backup", <<>>, {}, {})
    /\ UNCHANGED <<ver, pc, attempt, key, verified, setupKey, masterFile,
                   saltFile, accounts, dbMtime, backups, clock, writable>>

MinCount == 1

MaxCount == 20

\* settings choice 2: max(1, min(20, count)) and save_config
settings_count(count) ==
    /\ pc = "settings"
    /\ config' = [config EXCEPT !.backup_count = Max(MinCount, Min(MaxCount, count))]
    /\ configFile' = { config' }
    /\ out' = Report("settings", "backup_count", <<>>, {}, {})
    /\ UNCHANGED <<ver, pc, attempt, key, verified, setupKey, masterFile,
                   saltFile, accounts, dbMtime, backups, clock, writable>>

\* Counts typed at the "Count (1-20)" prompt
CountInputs == { 0, 1, 2 }

---------------------------------------------------------------------------
(* The specification. *)

\* The master passphrases of the vault specifications: one strong, one weak
VaultPassphrases == { Troubador, <<"a","b","c">> }

\* Process start, authentication and exit with one salt
Lifecycle ==
    \/ Start
    \/ \E pw1 \in VaultPassphrases, pw2 \in VaultPassphrases :
          set_master(pw1, pw2, "salt1")
    \/ \E pw \in VaultPassphrases : verify_master(pw, "salt1")
    \/ Quit

\* The records: add, get, update and delete over every input
Next ==
    \/ Lifecycle
    \/ \E a \in AddInputs, w \in UrlInputs, n \in NotesInputs :
          add(a[1], a[2], a[3], w, n)
    \/ \E s \in ServiceInputs : get(s)
    \/ \E i \in IdInputs, u \in UsernameInputs,
          p \in { {} } \cup { {x} : x \in SecretInputs } : update(i, u, p)
    \/ \E i \in IdInputs, c \in BOOLEAN : delete(i, c)

Spec == Init /\ [][Next]_vars

\* The listing: records of every service the inputs offer, and list_all
NextList ==
    \/ Lifecycle
    \/ \E a \in AddInputs : add(a[1], a[2], a[3], <<>>, <<>>)
    \/ \E i \in { <<"1">>, <<"2">> } : delete(i, TRUE)
    \/ list_all

SpecList == Init /\ [][NextList]_vars

\* Every handler of the menu and of the settings menu, over few inputs
NextAll ==
    \/ Lifecycle
    \/ Tick
    \/ add(<<"a","b">>, <<"u">>, <<"s">>, <<>>, <<>>)
    \/ get(<<"a">>)
    \/ list_all
    \/ \E q \in SearchInputs : search(q)
    \/ update(<<"1">>, <<>>, { <<"t">> })
    \/ delete(<<"1">>, TRUE)
    \/ export
    \/ backup
    \/ chmod_backups
    \/ settings_menu
    \/ settings_toggle
    \/ \E c \in CountInputs : settings_count(c)

SpecAll == Init /\ [][NextAll]_vars

\* The master-password gate: every passphrase and salt, one kind of record
NextAuth ==
    \/ Start
    \/ \E pw1 \in Passphrases, pw2 \in Passphrases, rnd \in Salts :
          set_master(pw1, pw2, rnd)
    \/ \E pw \in Passphrases, rnd \in Salts : verify_master(pw, rnd)
    \/ Quit
    \/ Tick
    \/ add(<<"a","b">>, <<"u">>, <<"s">>, <<>>, <<>>)
    \/ get(<<"a">>)

SpecAuth == Init /\ [][NextAuth]_vars

\* Changing records: two services, update and delete over every input
NextEdit ==
    \/ Lifecycle
    \/ \E svc \in { <<"a","b">>, <<"a","_">> } :
          add(svc, <<"u">>, <<"s">>, <<>>, <<>>)
    \/ \E i \in IdInputs, u \in UsernameInputs,
          p \in { {} } \cup { {x} : x \in SecretInputs } : update(i, u, p)
    \/ \E i \in IdInputs, c \in BOOLEAN : delete(i, c)

SpecEdit == Init /\ [][NextEdit]_vars

\* Backups over many seconds: the user's backups, the settings and the
\* automatic backup of an add
NextBackup ==
    \/ Start
    \/ set_master(Troubador, Troubador, "salt1")
    \/ verify_master(Troubador, "salt1")
    \/ Quit
    \/ LongTick
    \/ add(<<"a","b">>, <<"u">>, <<"s">>, <<>>, <<>>)
    \/ backup
    \/ settings_menu
    \/ settings_toggle
    \/ \E c \in CountInputs : settings_count(c)

SpecBackup == Init /\ [][NextBackup]_vars

\* The files change under the program: a lost salt, an edited configuration
NextEnv ==
    \/ Start
    \/ \E rnd \in Salts : set_master(Troubador, Troubador, rnd)
    \/ \E rnd \in Salts : verify_master(Troubador, rnd)
    \/ Quit
    \/ lose_salt
    \/ \E c \in EditedCounts : edit_config(c)
    \/ \E x \in SecretInputs : add(<<"a","b">>, <<"u">>, x, <<>>, <<>>)
    \/ get(<<"a">>)
    \/ export
    \/ settings_menu
    \/ \E c \in CountInputs : settings_count(c)

SpecEnv == Init /\ [][NextEnv]_vars

---------------------------------------------------------------------------
(* Properties. *)

VaultOps ==
    {"add", "get", "list_all", "search", "update", "delete", "export",
     "backup", "settings"}

\* A step that runs a handler or writes what a handler writes
HandlerStep ==
    \/ accounts' # accounts
    \/ backups' # backups
    \/ configFile' # configFile
    \/ out' # out /\ out'.op \in VaultOps

\* C1: a handler of the menu (add, get, list_all, search, update, delete,
\* export, backup, settings) runs only after verify_master has returned True
\* in this run, with the session key set; when verify_master returns False
\* the run ends, no handler has run in it, and the table, the salt, the
\* verifier and the backups are as they were.
C1_Gate ==
    /\ [](pc \in {"menu", "settings"} => verified /\ key # {})
    /\ [](out.op \in VaultOps => verified)
    /\ [](out.res = "locked" => pc = "off" /\ ~verified /\ key = {})
    /\ [][HandlerStep => pc \in {"menu", "settings"} /\ verified /\ key # {}]_vars
    /\ [][(pc = "off" \/ pc = "unlock") /\ ~verified'
            => UNCHANGED <<accounts, saltFile, masterFile, backups>>]_vars

\* C1 witness: a run that failed authentication ended while records exist
C1_Witness == pc = "off" /\ out.res = "locked" /\ accounts # {}

\* C2: verify_master asks for the passphrase at most 3 times in a run: a
\* prompt is only reached with fewer than 3 failures, the third failure ends
\* the run unauthenticated, and a new run starts with no failure counted.
C2_ThreeAttempts ==
    /\ [](attempt <= 3)
    /\ [](pc = "unlock" => attempt < 3)
    /\ [](attempt = 3 => pc = "off" /\ ~verified /\ key = {})
    /\ [][attempt' # attempt => attempt' = attempt + 1 \/ (pc = "off" /\ attempt' = 0)]_vars
    /\ [][pc = "off" /\ pc' # "off" => attempt' = 0]_vars

\* C2 witness: three consecutive mismatches ended the run
C2_Witness == attempt = 3 /\ pc = "off" /\ out.res = "locked"

\* The passphrase set_master persisted
MasterPw == { k.pw : k \in setupKey }

\* C3: after setup with P, an attempt with Q succeeds exactly when Q = P, on
\* every attempt; a success sets the session key derived from P and the salt.
C3_UnlockIff ==
    out.op = "verify_master" =>
        /\ (out.res = "ok") <=> (out.arg \in MasterPw)
        /\ out.res = "ok" => verified
        /\ out.res = "ok" /\ pc # "off" =>
              \E salt \in saltFile : key = { PBKDF2(out.arg, salt) }
        /\ out.res # "ok" => ~verified /\ key = {}

\* C3 witness: the right passphrase is accepted on the third attempt, after
\* two mismatches
C3_Witness ==
    out.op = "verify_master" /\ out.res = "ok" /\ attempt = 2 /\ pc = "menu"

\* The rows a report names, as get shows them when each decrypts to the
\* plaintext it was encrypted from
ShownInFull(rows, ids) == { Entry(r, r.password.m) : r \in { q \in rows : q.id \in ids } }

\* C4: the key of every authenticated session is the key set_master derived,
\* so get shows every record it matches, added in this run or an earlier
\* one, with the plaintext that was encrypted.
C4_SameKey ==
    /\ [](key # {} => key = setupKey)
    /\ [][out'.op = "get" /\ out' # out
            => out'.shown = ShownInFull(accounts, out'.matched)]_vars

\* C4 witness: a later run has been unlocked while records of an earlier
\* run are stored
C4_Witness ==
    /\ pc = "menu" /\ out.op = "verify_master" /\ out.res = "ok"
    /\ accounts # {} /\ key = setupKey

\* C5: while the table holds a record the salt file is never written again,
\* and it holds the salt of the key of every record and of the session.
C5_SaltFixed ==
    /\ [](accounts # {} =>
            /\ saltFile # {}
            /\ \A r \in accounts : r.password.k.salt \in saltFile)
    /\ [](\A k \in key : k.salt \in saltFile)
    /\ [][accounts # {} => saltFile' = saltFile]_vars

\* C5 witness: a run unlocked after a mismatch reads records back
C5_Witness ==
    /\ accounts # {} /\ key # {} /\ attempt > 0
    /\ out.op = "get" /\ out.shown # {}

\* C6: set_master is entered only while no verifier is stored, and a stored
\* verifier is never rewritten or removed.
C6_SetupOnce ==
    /\ [](pc = "setup" => masterFile = {})
    /\ [][masterFile # {} => masterFile' = masterFile /\ pc' # "setup"]_vars
    /\ [][out'.op = "set_master" /\ out' # out => masterFile = {}]_vars

\* C6 witness: a later run finds the verifier and asks for the passphrase
C6_Witness == masterFile # {} /\ pc = "unlock" /\ attempt = 0

\* How many of length >= 8, upper, lower, digit, symbol a passphrase meets
Criteria5(pw) ==
    B2N(Len(pw) >= 8) + B2N(AnyChar(pw, Uppercase)) + B2N(AnyChar(pw, Lowercase))
    + B2N(AnyChar(pw, DigitChars)) + B2N(AnyChar(pw, Punctuation))

\* The points the programs add for length: 12 and, in v2.5, 16
LengthBonus(pw) ==
    B2N(Len(pw) >= 12) + (IF ver = "v25" THEN B2N(Len(pw) >= 16) ELSE 0)

\* C7 as stated: set_master passes a passphrase exactly when it meets at
\* least 3 of the five criteria.
C7_Original ==
    out.op = "set_master" => ((out.res # "weak") <=> (Criteria5(out.arg) >= 3))

\* C7 as amended: set_master rejects a passphrase as weak exactly when the
\* criteria it meets plus the length points are fewer than 3; three of the
\* five criteria suffice; a rejection persists nothing and asks again.
C7_Amended ==
    /\ [](out.op = "set_master" =>
            ((out.res = "weak") <=> (Criteria5(out.arg) + LengthBonus(out.arg) < 3)))
    /\ [](out.op = "set_master" /\ Criteria5(out.arg) >= 3 => out.res # "weak")
    /\ [][out'.op = "set_master" /\ out'.res = "weak" /\ out' # out
            => pc = "setup" /\ UNCHANGED <<pc, masterFile, saltFile, key, accounts>>]_vars

\* C7 witness: a passphrase meeting two criteria is persisted
C7_Witness ==
    /\ out.op = "set_master" /\ out.res = "set" /\ Criteria5(out.arg) < 3
    /\ masterFile # {}

\* C8: an add with an empty service or an empty user name reports a
\* validation error and inserts no row, makes no backup and leaves the
\* table as it was.
C8_EmptyRejected ==
    [][(\E a \in AddInputs, w \in UrlInputs, n \in NotesInputs :
            /\ Strip(a[1]) = <<>> \/ Strip(a[2]) = <<>>
            /\ add(a[1], a[2], a[3], w, n))
        => /\ out'.res = "ValidationError"
           /\ UNCHANGED <<accounts, backups, dbMtime>>]_vars

\* t occurs in s as a run of characters, letter case aside
Contains(s, t) ==
    \E k \in 0..(Len(s) - Len(t)) :
        \A i \in 1..Len(t) : Fold(s[k + i]) = Fold(t[i])

\* The row the last add inserted
Added == { r \in accounts : r.id \in out.matched }

\* C9: right after an add of a non-empty service, user name and secret to a
\* table with no other record whose service contains that service name
\* (letter case aside), get of that service shows exactly the new record,
\* with the secret that was encrypted and equal created and updated times.
C9_AddThenGet ==
    [][(/\ out.op = "add" /\ out.res = "added"
        /\ \A r \in Added :
              /\ r.service # <<>> /\ r.username # <<>> /\ r.password.m # <<>>
              /\ \A q \in accounts \ Added : ~Contains(q.service, r.service)
        /\ get(out.arg))
        => \E r \in Added :
              /\ out'.shown = { Entry(r, r.password.m) }
              /\ r.created = r.updated]_vars

\* C10: a confirmed delete of a stored id removes that row and no other;
\* right after it no get shows the row and a delete of the same id reports
\* NotFound and changes nothing.
C10_Delete ==
    /\ [][\A i \in IdInputs :
            delete(i, TRUE) /\ RowsWithId(accounts, Strip(i)) # {}
              => /\ accounts' = accounts \ RowsWithId(accounts, Strip(i))
                 /\ RowsWithId(accounts', Strip(i)) = {}
                 /\ out'.res = "deleted"]_vars
    /\ [][out.op = "delete" /\ out.res = "deleted" /\ out'.op = "get"
            => /\ out'.matched \cap out.matched = {}
               /\ \A e \in out'.shown : e.id \notin out.matched]_vars
    /\ [][\A c \in BOOLEAN :
            out.op = "delete" /\ out.res = "deleted" /\ delete(out.arg, c)
              => out'.res = "NotFound" /\ UNCHANGED disk]_vars

\* C10 witness: a record was deleted and another is still stored
C10_Witness ==
    /\ out.op = "delete" /\ out.res = "deleted"
    /\ accounts # {} /\ \A r \in accounts : r.id \notin out.matched

\* The typed text, white space aside, is the decimal numeral of the id n
Names(text, n) ==
    Strip(text) = << CASE n = 0 -> "0" [] n = 1 -> "1" [] n = 2 -> "2"
                       [] n = 3 -> "3" [] n = 4 -> "4" [] n = 5 -> "5"
                       [] n = 6 -> "6" [] n = 7 -> "7" [] n = 8 -> "8"
                       [] n = 9 -> "9" [] OTHER -> "?" >>

\* r2 is r with a new token for the secret x and a later updated time
Resealed(r, r2, x) ==
    /\ r2.id = r.id /\ r2.service = r.service /\ r2.username = r.username
    /\ r2.url = r.url /\ r2.notes = r.notes /\ r2.created = r.created
    /\ r2.password # r.password
    /\ r2.password.m = x
    /\ r2.password.k \in key
    /\ r2.updated > r.updated

\* C11: an update of a stored id with no new user name and a new secret
\* changes that row's encrypted secret and updated time only: its id,
\* service, user name, url, notes and created time stay, and every other
\* row of the table stays as it was.
C11_UpdateFrame ==
    [][\A i \in IdInputs, x \in SecretInputs \ { <<>> } :
         (/\ \E r \in accounts : Names(i, r.id)
          /\ update(i, <<>>, {x}))
         => \E r \in accounts, r2 \in accounts' :
               /\ Names(i, r.id)
               /\ Resealed(r, r2, x)
               /\ accounts' \ {r2} = accounts \ {r}]_vars

\* C11 witness: with two rows stored, one was given a new secret and kept
\* its user name
C11_Witness ==
    /\ out.op = "update" /\ out.res = "updated"
    /\ Cardinality(accounts) = 2
    /\ \E r \in accounts :
          /\ r.id \in out.matched
          /\ r.password.m = <<"t">> /\ r.username = <<"u">>
          /\ r.updated > r.created

\* C12: an update of a stored id with no new user name and no new secret
\* writes nothing (the row with its updated time, the other rows, the
\* database file and the backups stay) and tells the user that nothing
\* changed.
C12_NoChange ==
    [][\A i \in IdInputs, p \in { {}, { <<>> } } :
         (/\ \E r \in accounts : Names(i, r.id)
          /\ update(i, <<>>, p))
         => /\ out'.op = "update" /\ out'.res = "NoChange"
            /\ UNCHANGED <<accounts, dbMtime, backups>>]_vars

\* C13: an update or a delete with an id that names no stored row reports
\* NotFound whatever else is typed (the other prompts are never reached) and
\* changes no row, file or backup.
C13_NotFound ==
    [][\A i \in IdInputs :
         (/\ \A r \in accounts : ~Names(i, r.id)
          /\ \/ \E u \in UsernameInputs,
                   p \in { {} } \cup { {x} : x \in SecretInputs } :
                   update(i, u, p)
             \/ \E c \in BOOLEAN : delete(i, c))
         => /\ out'.op \in {"update", "delete"}
            /\ out'.res = "NotFound" /\ out'.arg = Strip(i)
            /\ UNCHANGED <<pc, key, accounts, dbMtime, saltFile, masterFile,
                           backups, config, configFile, clock>>]_vars

\* C13 witness: with a row stored, an update named an id that is not stored
C13_Witness ==
    /\ out.op = "update" /\ out.res = "NotFound" /\ out.arg = <<"2">>
    /\ accounts # {}
    /\ \A r \in accounts : r.id # 2

\* A step in which backup() ran to its end: called by the user, or by a
\* handler of v2.5 after its commit with auto_backup on
BackupCompleted ==
    \/ backup /\ out'.res = "done"
    \/ accounts' # accounts /\ ver = "v25" /\ config.auto_backup /\ writable

\* C14: after every completed backup the directory holds at most
\* backup_count artifacts (v2 has no setting: the default count, 5).
C14_Retention ==
    [][BackupCompleted => Cardinality(backups') <= config.backup_count]_vars

\* The artifacts a step removed: stored before, no file of that name after
Pruned == { d \in backups : \A k \in backups' : k.name # d.name }

\* C15: each completed backup of v2.5 adds one artifact until backup_count
\* is reached (so backup_count + 2 backups leave exactly backup_count), and
\* what it prunes is older, by creation, than everything it keeps; the name
\* of an artifact is the second it was created in.
C15_PruneOldest ==
    [][backup /\ ver = "v25" /\ out'.res = "done"
        => /\ Cardinality(backups') =
                  Min(config.backup_count, Cardinality(backups) + 1)
           /\ \A k \in backups', d \in Pruned : k.name > d.name]_vars

\* A successful add, an update that changes a field, a confirmed delete
Mutated == accounts' # accounts

\* C16: with auto_backup on, a step of v2.5 that commits an add, an update
\* or a delete also leaves, when the directory can be written, a backup of
\* the table as committed, made at the time of the commit; with auto_backup
\* off (and in v2, which has no automatic backup) such a step leaves the
\* backups as they were.
C16_AutoBackup ==
    /\ [][Mutated /\ ver = "v25" /\ config.auto_backup /\ writable
            => \E b \in backups' :
                  /\ b.content = accounts' /\ b.mtime = dbMtime'
                  /\ b.name = Sec(clock)]_vars
    /\ [][Mutated /\ ~(ver = "v25" /\ config.auto_backup)
            => UNCHANGED backups]_vars

\* C16 witness: an update was committed with auto_backup on and the backup
\* of the updated table is there
C16_Witness ==
    /\ ver = "v25" /\ config.auto_backup
    /\ out.op = "update" /\ out.res = "updated"
    /\ \E b \in backups : b.content = accounts /\ b.mtime = dbMtime

\* C17: a backup the user asked for that fails at the copy tells the user
\* so (an error message in v2.5, the traceback the process ends with in
\* v2); an automatic backup that fails says nothing, the handler reports
\* its own success and its commit stays; a failed backup changes no file.
C17_BackupFailure ==
    /\ [][backup /\ ~writable
            => /\ out'.op = "backup" /\ out'.res \in {"failed", "crashed"}
               /\ UNCHANGED <<accounts, dbMtime, backups, masterFile,
                              saltFile, configFile>>]_vars
    /\ [][Mutated /\ ver = "v25" /\ config.auto_backup /\ ~writable
            => /\ out'.res \in {"added", "updated", "deleted"}
               /\ dbMtime' = clock
               /\ UNCHANGED <<backups, pc, masterFile, saltFile>>]_vars

\* C17 witness: an add was committed with auto_backup on while the
\* directory could not be written: its row is stored and no backup exists
C17_Witness ==
    /\ ver = "v25" /\ config.auto_backup
    /\ out.op = "add" /\ out.res = "added"
    /\ accounts # {} /\ backups = {}

\* The rows a report matched
MatchedRows == { r \in accounts : r.id \in out'.matched }

\* The token was made under the key of this session: decrypt returns its
\* plaintext
Decrypts(r) == r.password.k \in key

\* C18: get and export of v2.5 show every matched row whose secret
\* decrypts, once, with its plaintext, whether or not other matched rows
\* fail to decrypt, and write nothing.  The same holds of get of v2 for
\* the rows with a non-empty secret; v2 can store an empty secret, and its
\* get leaves such a row out ("if pw").
C18_BatchSurvives ==
    [][get(<<"a">>) \/ export
        => /\ out'.shown =
                { Entry(r, r.password.m) :
                    r \in { q \in MatchedRows :
                              /\ Decrypts(q)
                              /\ ver = "v2" => q.password.m # <<>> } }
           /\ UNCHANGED <<accounts, dbMtime, backups>>]_vars

\* C18 witness: get of v2.5 matched two rows, one of them sealed under a
\* key that is lost, and showed the other
C18_Witness ==
    /\ ver = "v25" /\ out.op = "get"
    /\ Cardinality(out.matched) = 2 /\ Cardinality(out.shown) = 1
    /\ \E r \in accounts : r.id \in out.matched /\ ~(r.password.k \in key)

\* C19: when get matches a row whose secret does not decrypt, the report
\* says so for that row: it is neither the report of no match nor a report
\* with no line at all for the row.
C19_SecretUnavailable ==
    [][get(<<"a">>)
        => \A r \in MatchedRows :
              ~Decrypts(r)
                  => /\ out'.res # NotFoundRes
                     /\ \E e \in out'.shown : e.id = r.id]_vars

\* C20: the backup_count the program runs with is always an integer from 1
\* to 20, and 5 while no configuration has been saved.
C20_CountRange ==
    /\ config.backup_count \in 1..20
    /\ configFile = {} => config.backup_count = 5

\* The secrets typed at the password prompts of add and update
TypedSecrets == SecretInputs \cup { <<"s">> }

\* C21: with the program's files left to the program, the password column
\* of every stored row holds a token made by encrypt under the key derived
\* from the master passphrase and the salt of the salt file; a step stores
\* a new token only in add or update, made from the secret typed there; so
\* in every authenticated session every row decrypts to the secret last
\* written for it.
C21_Ciphertext ==
    /\ [](\A r \in accounts :
            /\ DOMAIN r.password = {"k", "m", "iv"}
            /\ r.password.k.pw \in MasterPw
            /\ r.password.k.salt \in saltFile
            /\ r.password.k \in setupKey)
    /\ [](verified /\ key # {} =>
            \A r \in accounts : decrypt(r.password) = { r.password.m })
    /\ [][\A r2 \in accounts' :
            \/ \E r \in accounts : r.id = r2.id /\ r.password = r2.password
            \/ /\ r2.password.k \in key
               /\ \E x \in TypedSecrets :
                    /\ r2.password.m = x
                    /\ \/ \E svc \in ServiceInputs :
                             add(svc, <<"u">>, x, <<>>, <<>>)
                       \/ \E i \in IdInputs, u \in UsernameInputs :
                             update(i, u, {x})]_vars

\* C21 witness: a run has just been unlocked and the table holds a row
\* whose secret an earlier step replaced
C21_Witness ==
    /\ pc = "menu" /\ verified
    /\ out.op = "verify_master" /\ out.res = "ok"
    /\ \E r \in accounts :
          /\ r.updated > r.created /\ r.password.m = <<"t">>
          /\ decrypt(r.password) = { <<"t">> }

----------------------------------------------------------------------------
(* The listing. *)

\* The services the inputs can store, in ascending order of their bytes
ServiceOrder == << <<>>, <<"A","B">>, <<"a","_">>, <<"a","b">> >>

Rank(s) == CHOOSE i \in 1..Len(ServiceOrder) : ServiceOrder[i] = s

\* C22: list_all prints every stored record exactly once (its id, service
\* and username), the lines ordered by service ascending; no line carries
\* a secret, nothing is decrypted, and the store, the key and the files
\* are as they were.
C22_Listing ==
    [][out'.op = "list_all" /\ pc' = "menu"
        => /\ Len(out'.listed) = Cardinality(accounts)
           /\ \A r \in accounts :
                Cardinality({ i \in 1..Len(out'.listed) :
                                /\ out'.listed[i].id = r.id
                                /\ out'.listed[i].service = r.service
                                /\ out'.listed[i].username = r.username }) = 1
           /\ \A i, j \in 1..Len(out'.listed) :
                i < j => Rank(out'.listed[i].service)
                           <= Rank(out'.listed[j].service)
           /\ \A i \in 1..Len(out'.listed) :
                "password" \notin DOMAIN out'.listed[i]
           /\ out'.shown = {}
           /\ UNCHANGED <<session, disk, clock>>]_vars

\* Two records listed against the order of their ids: AB (added second)
\* before ab (added first)
C22_Witness ==
    /\ out.op = "list_all" /\ pc = "menu"
    /\ Len(out.listed) = 2
    /\ out.listed[1].service = <<"A","B">> /\ out.listed[1].id = 2
    /\ out.listed[2].service = <<"a","b">> /\ out.listed[2].id = 1

----------------------------------------------------------------------------
(* Backups and commits. *)

\* The artifacts with the latest name (the second of their creation)
NewestArtifacts(bk) == { b \in bk : \A k \in bk : k.name <= b.name }

\* C23: a backup copies the store between writes. Every artifact a step
\* writes holds the table as committed at the end of that step, with the
\* modification time of that commit; a backup the user asks for leaves the
\* table alone; and after the automatic backup of an add, update or delete
\* the newest artifact holds the table with that change, not the table of
\* before.
C23_Quiescent ==
    /\ [][\A b \in backups' \ backups :
             b.content = accounts' /\ b.mtime = dbMtime']_vars
    /\ [][backup => UNCHANGED <<accounts, dbMtime>>]_vars
    /\ [][Mutated /\ backups' # backups
            => \A b \in NewestArtifacts(backups') :
                  b.content = accounts' /\ b.content # accounts]_vars

\* C23 witness: a delete was committed a second after the add; the newest
\* artifact holds the table without the row, an older one still has it
C23_Witness ==
    /\ ver = "v25" /\ out.op = "delete" /\ out.res = "deleted"
    /\ \E b \in NewestArtifacts(backups), k \in backups :
          /\ k.name < b.name
          /\ b.content = accounts /\ b.mtime = dbMtime
          /\ k.content # accounts

----------------------------------------------------------------------------
(* Record ids. *)

\* The id an add gives differs from the id of every stored record, and an
\* update leaves every id as it was
C24_FreshAmongStored ==
    [][/\ out'.op = "add" /\ out'.res = "added" /\ accounts' # accounts
             => \A i \in out'.matched : \A r \in accounts : r.id # i
       /\ out'.op = "update" /\ accounts' # accounts
             => { r.id : r \in accounts' } = { r.id : r \in accounts }]_vars

\* C24: ids are never reused: the id an add gives differs from the id of
\* every stored record and from the id of a record that was deleted (here:
\* by the delete just before the add), and an update changes no id.
C24_NoReuse ==
    /\ C24_FreshAmongStored
    /\ [][(/\ out.op = "delete" /\ out.res = "deleted"
           /\ out'.op = "add" /\ out'.res = "added"
           /\ accounts' # accounts)
             => out'.matched \cap out.matched = {}]_vars

============================================================================
